---- MODULE Spec2Model ----
(***************************************************************************)
(* The template-matching engine of aah-cv (packages/aah-cv/src/lib.rs):    *)
(* the GPU session TemplateMatcher with its cached pipeline and buffers,   *)
(* the free function match_template and the derived ccoeff methods.        *)
(*                                                                         *)
(* Conventions                                                             *)
(*  - Option<T> is a sequence: <<>> is None, <<v>> is Some(v).             *)
(*  - f32 values are exact rationals <<num, den>> (den > 0, lowest terms): *)
(*    rounding is not modelled.                                            *)
(*  - a u32 is kept as its representative in -2^31 .. 2^31-1: a negative   *)
(*    representative r stands for the wrapped value 2^32 + r.              *)
(*  - a panic is a result record whose field panic is not "".              *)
(***************************************************************************)
EXTENDS Integers, Sequences, FiniteSets, TLC

\* Frames and templates of a session have at most MaxArea pixels, in one or
\* two rows.
MaxArea == 2
Heights == {1, 2}

\* The pixel value the session's frames are filled with, and its templates'.
FramePixel == 1
TemplatePixel == 2

\* The scans are applied to grids of at most MaxCells cells, in one or two
\* rows, every cell one of GridValues, with templates at most MaxFootprint
\* wide and a threshold of Thresholds.
MaxCells == 6
MaxFootprint == 2
GridValues == {1, 2, 3}
Thresholds == {1, 3, 4}

\* The free functions are applied to frames of at most MaxPixels pixels and
\* templates of at most MaxTemplatePixels, in one or two rows, every pixel
\* one of Pixels.
MaxPixels == 4
MaxTemplatePixels == 2
Pixels == {0, 1}

Some(v) == <<v>>
None == <<>>
is_some(o) == Len(o) = 1
is_none(o) == Len(o) = 0
unwrap(o) == o[1]

---------------------------------------------------------------------------
(* f32 as exact rationals *)

Abs(x) == IF x < 0 THEN -x ELSE x

RECURSIVE Gcd(_, _)
Gcd(a, b) == IF b = 0 THEN a ELSE Gcd(b, a % b)

Norm(n, d) ==
    LET g == Gcd(Abs(n), Abs(d))
        s == IF d < 0 THEN -1 ELSE 1
    IN  <<(s * n) \div g, (s * d) \div g>>

F(n) == <<n, 1>>
FAdd(a, b) == Norm(a[1] * b[2] + b[1] * a[2], a[2] * b[2])
FSub(a, b) == Norm(a[1] * b[2] - b[1] * a[2], a[2] * b[2])
FMul(a, b) == Norm(a[1] * b[1], a[2] * b[2])
FNeg(a) == <<-a[1], a[2]>>
\* 1.0 / rhs; a division by zero yields an infinity, kept as <<1, 0>>.
FRecip(a) == IF a[1] = 0 THEN <<1, 0>> ELSE Norm(a[2], a[1])

---------------------------------------------------------------------------
(* MatchTemplateMethod and Image *)

MatchTemplateMethod ==
    {"SumOfAbsoluteErrors", "SumOfSquaredErrors", "CrossCorrelation",
     "CCOEFF", "CCOEFF_NORMED"}

RawMethods == {"SumOfAbsoluteErrors", "SumOfSquaredErrors", "CrossCorrelation"}

\* Image::new
Image(data, width, height) == [data |-> data, width |-> width, height |-> height]

\* size_of::<f32>()
SizeOfF32 == 4

\* Limits::default(): max_buffer_size and max_compute_workgroups_per_dimension
MaxBufferSize == 268435456
MaxWorkgroupsPerDimension == 65535

---------------------------------------------------------------------------
(* Device buffers.  An input or template buffer is its size in bytes and    *)
(* the pixels written to it.  A result or staging buffer is its size; what  *)
(* a submitted computation writes to them is kept in the device queue from  *)
(* the submit until wait_for_result has waited for it: nothing reads these  *)
(* buffers at any other time.                                               *)

ZeroUniforms ==
    [input_width |-> 0, input_height |-> 0, template_width |-> 0, template_height |-> 0]

\* a zero-initialised buffer, and the vec![0.0; n] of a failed readback
Zeros ==
    [kind |-> "zeros", entry_point |-> "", uniforms |-> ZeroUniforms,
     input |-> None, template |-> None]

\* what a buffer holds that no submitted computation has written since
Stale ==
    [kind |-> "stale", entry_point |-> "", uniforms |-> ZeroUniforms,
     input |-> None, template |-> None]

\* what a dispatch leaves in the result buffer: the output of the pipeline's
\* kernel on the bound input and template buffers (None: a buffer the
\* matcher has replaced since) under the uniforms
KernelOutput(entry, uniforms, input, template) ==
    [kind |-> "kernel", entry_point |-> entry, uniforms |-> uniforms,
     input |-> input, template |-> template]

Buffer(size, data) == [size |-> size, data |-> data]

\* sizes beyond 2^30 bytes are kept as 2^30: all of them exceed MaxBufferSize
SizeCap == 2 ^ 30

\* (n as u32) as u64 * size_of::<f32>() for the u32 representative n
ByteSize(n) == IF n < 0 THEN SizeCap ELSE n * SizeOfF32

\* device.create_buffer_init: a buffer holding `contents`
create_buffer_init(contents) == Buffer(Len(contents) * SizeOfF32, contents)

\* device.create_buffer: validation refuses a size above max_buffer_size
create_buffer_ok(size) == size <= MaxBufferSize
create_buffer(size) == [size |-> size]

\* queue.write_buffer(buffer, 0, contents): overwrites in place
write_buffer(buffer, contents) == Buffer(buffer.size, contents)

\* a bind group entry stays bound to the buffer it was created with: once the
\* matcher replaces that buffer the entry no longer refers to the current one
BindGroup(input, template, result) ==
    [input |-> input, template |-> template, result |-> result]

rebind(bind_group, slot) ==
    IF is_none(bind_group)
    THEN bind_group
    ELSE Some([unwrap(bind_group) EXCEPT ![slot] = FALSE])

---------------------------------------------------------------------------
(* TemplateMatcher *)

\* TemplateMatcher::new
TemplateMatcher_new ==
    [last_pipeline |-> None,
     last_method |-> None,
     last_input_size |-> <<0, 0>>,
     last_template_size |-> <<0, 0>>,
     last_result_size |-> <<0, 0>>,
     uniform_buffer |-> ZeroUniforms,
     input_buffer |-> None,
     template_buffer |-> None,
     result_buffer |-> None,
     staging_buffer |-> None,
     bind_group |-> None,
     matching_ongoing |-> FALSE,
     \* the device queue: what the command buffers submitted and not yet
     \* waited for copy into the staging buffer, oldest first
     queue |-> <<>>]

\* wait_for_result leaving matching_ongoing set
wait_for_result_keeps_flag(self, map_ok) ==
    IF ~self.matching_ongoing
    THEN [self |-> self, ret |-> None]
    ELSE [self |-> [self EXCEPT !.queue = <<>>],
          ret |-> Some(Image([len |-> unwrap(self.staging_buffer).size \div SizeOfF32,
                              values |-> Zeros],
                             self.last_result_size[1], self.last_result_size[2]))]

\* TemplateMatcher::wait_for_result.  map_ok: whether map_async reports Ok.
wait_for_result(self, map_ok) ==
    IF ~self.matching_ongoing
    THEN [self |-> self, ret |-> None]
    ELSE LET result_width == self.last_result_size[1]
             result_height == self.last_result_size[2]
             staging == unwrap(self.staging_buffer)
             result ==
                 IF map_ok
                 THEN [len |-> staging.size \div SizeOfF32,
                       values |-> IF self.queue = <<>> THEN Stale
                                  ELSE self.queue[Len(self.queue)]]
                 ELSE [len |-> result_width * result_height, values |-> Zeros]
         IN  [self |-> [self EXCEPT !.matching_ongoing = FALSE, !.queue = <<>>],
              ret |-> Some(Image(result, result_width, result_height))]

\* the entry point match_template selects; None where it panics
entry_point(method) ==
    CASE method = "SumOfAbsoluteErrors" -> Some("main_sae")
      [] method = "SumOfSquaredErrors" -> Some("main_sse")
      [] method = "CrossCorrelation" -> Some("main_cc")
      [] OTHER -> None

\* match_template without lines 500-503: the uncollected result is left
MT_discard_skipped(self) ==
    [self |-> self,
     panic |-> "",
     discarded |-> FALSE,
     compiled |-> FALSE,
     created |-> <<>>,
     written |-> {},
     buffers_changed |-> FALSE,
     result_width |-> 0,
     result_height |-> 0,
     result_buf_size |-> 0,
     dispatched |-> FALSE]

\* match_template, lines 500-503: discard a result that was not collected.
\* The fields beside self and panic record what the call did: whether it
\* discarded a result, compiled a pipeline, dispatched; the buffers it
\* created, in order, and those it overwrote in place.
MT_discard(self) ==
    [self |-> IF self.matching_ongoing THEN wait_for_result(self, TRUE).self ELSE self,
     panic |-> "",
     discarded |-> self.matching_ongoing,
     compiled |-> FALSE,
     created |-> <<>>,
     written |-> {},
     buffers_changed |-> FALSE,
     result_width |-> 0,
     result_height |-> 0,
     result_buf_size |-> 0,
     dispatched |-> FALSE]

\* match_template, lines 505-523: the pipeline
MT_pipeline(c, method) ==
    IF c.panic # "" THEN c
    ELSE IF is_none(c.self.last_pipeline) \/ c.self.last_method # Some(method)
    THEN LET s1 == [c.self EXCEPT !.last_method = Some(method)]
         IN  IF is_none(entry_point(method))
             THEN [c EXCEPT !.self = s1, !.panic = "not implemented yet"]
             ELSE [c EXCEPT !.self = [s1 EXCEPT !.last_pipeline = entry_point(method)],
                            !.compiled = TRUE]
    ELSE c

\* the input buffer created anew by every call
MT_input_buffer_always(c, input) ==
    IF c.panic # "" THEN c
    ELSE [c EXCEPT !.buffers_changed = TRUE,
                   !.created = Append(@, "input_buffer"),
                   !.self = [c.self EXCEPT
                       !.last_input_size = <<input.width, input.height>>,
                       !.input_buffer = Some(create_buffer_init(input.data)),
                       !.bind_group = rebind(@, "input")]]

\* match_template, lines 527-546: the input buffer
MT_input_buffer(c, input) ==
    IF c.panic # "" THEN c
    ELSE LET input_size == <<input.width, input.height>>
         IN  IF is_none(c.self.input_buffer) \/ c.self.last_input_size # input_size
             THEN [c EXCEPT !.buffers_changed = TRUE,
                            !.created = Append(@, "input_buffer"),
                            !.self = [c.self EXCEPT
                                !.last_input_size = input_size,
                                !.input_buffer = Some(create_buffer_init(input.data)),
                                !.bind_group = rebind(@, "input")]]
             ELSE [c EXCEPT !.written = @ \cup {"input_buffer"},
                            !.self = [c.self EXCEPT
                                !.input_buffer =
                                    Some(write_buffer(unwrap(@), input.data))]]

\* the template buffer created once and overwritten ever after
MT_template_buffer_kept(c, input, template) ==
    IF c.panic # "" THEN c
    ELSE IF is_none(c.self.template_buffer)
    THEN [c EXCEPT !.buffers_changed = TRUE,
                   !.created = Append(@, "template_buffer"),
                   !.self = [c.self EXCEPT
                       !.uniform_buffer =
                           [input_width |-> input.width,
                            input_height |-> input.height,
                            template_width |-> template.width,
                            template_height |-> template.height],
                       !.last_template_size = <<template.width, template.height>>,
                       !.template_buffer = Some(create_buffer_init(template.data)),
                       !.bind_group = rebind(@, "template")]]
    ELSE [c EXCEPT !.written = @ \cup {"template_buffer"},
                   !.self = [c.self EXCEPT
                       !.template_buffer =
                           Some(write_buffer(unwrap(@), template.data))]]

\* match_template, lines 548-577: the uniforms and the template buffer
MT_template_buffer(c, input, template) ==
    IF c.panic # "" THEN c
    ELSE LET template_size == <<template.width, template.height>>
         IN  IF is_none(c.self.template_buffer) \/ c.self.last_template_size # template_size
             THEN [c EXCEPT !.buffers_changed = TRUE,
                            !.created = Append(@, "template_buffer"),
                            !.self = [c.self EXCEPT
                                !.uniform_buffer =
                                    [input_width |-> input.width,
                                     input_height |-> input.height,
                                     template_width |-> template.width,
                                     template_height |-> template.height],
                                !.last_template_size = template_size,
                                !.template_buffer = Some(create_buffer_init(template.data)),
                                !.bind_group = rebind(@, "template")]]
             ELSE [c EXCEPT !.written = @ \cup {"template_buffer"},
                            !.self = [c.self EXCEPT
                                !.template_buffer =
                                    Some(write_buffer(unwrap(@), template.data))]]

\* match_template, lines 579-581: the size of the score grid, in u32.  With
\* overflow checks (a debug build) a - b panics when b > a; without them
\* (a release build) the subtraction wraps.
MT_result_size(c, input, template, overflow_checks) ==
    IF c.panic # "" THEN c
    ELSE IF overflow_checks
            /\ (template.width > input.width \/ template.height > input.height)
    THEN [c EXCEPT !.panic = "attempt to subtract with overflow"]
    ELSE LET result_width == input.width - template.width + 1
             result_height == input.height - template.height + 1
         IN  [c EXCEPT !.result_width = result_width,
                        !.result_height = result_height,
                        !.result_buf_size = ByteSize(result_width * result_height)]

\* the result and staging buffers recreated without last_result_size updated
MT_result_buffers_stale_size(c) ==
    IF c.panic # "" \/ ~c.buffers_changed THEN c
    ELSE [c EXCEPT !.self = [c.self EXCEPT
                       !.result_buffer = Some(create_buffer(c.result_buf_size)),
                       !.staging_buffer = Some(create_buffer(c.result_buf_size)),
                       !.bind_group = Some(BindGroup(TRUE, TRUE, TRUE))],
                   !.created = @ \o <<"result_buffer", "staging_buffer">>]

\* match_template, lines 583-624: the result and staging buffers and the bind
\* group.  A validation error of the device panics (the default handler).
MT_result_buffers(c) ==
    IF c.panic # "" \/ ~c.buffers_changed THEN c
    ELSE LET s1 == [c.self EXCEPT !.last_result_size = <<c.result_width, c.result_height>>]
             s2 == [s1 EXCEPT !.result_buffer = Some(create_buffer(c.result_buf_size)),
                              !.bind_group = rebind(@, "result")]
             s3 == [s2 EXCEPT !.staging_buffer = Some(create_buffer(c.result_buf_size))]
             s4 == [s3 EXCEPT !.bind_group = Some(BindGroup(TRUE, TRUE, TRUE))]
         IN  IF ~create_buffer_ok(c.result_buf_size)
             THEN [c EXCEPT !.self = s1, !.panic = "create_buffer: size exceeds max_buffer_size"]
             ELSE IF unwrap(s3.input_buffer).size = 0
                     \/ unwrap(s3.template_buffer).size = 0
                     \/ c.result_buf_size = 0
             THEN [c EXCEPT !.self = s3,
                            !.created = @ \o <<"result_buffer", "staging_buffer">>,
                            !.panic = "create_bind_group: binding of zero size"]
             ELSE [c EXCEPT !.self = s4,
                            !.created = @ \o <<"result_buffer", "staging_buffer">>]

\* (n as f32 / 16.0).ceil() as u32 for the u32 representative n
Workgroups(n) == IF n < 0 THEN 2 ^ 28 ELSE (n + 15) \div 16

\* match_template, lines 626-655: the compute pass, the copy and the submit
MT_dispatch(c) ==
    IF c.panic # "" THEN c
    ELSE IF is_none(c.self.bind_group)
    THEN [c EXCEPT !.panic = "called Option::unwrap() on a None value"]
    ELSE IF Workgroups(c.result_width) > MaxWorkgroupsPerDimension
            \/ Workgroups(c.result_height) > MaxWorkgroupsPerDimension
    THEN [c EXCEPT !.panic = "dispatch_workgroups: exceeds max_compute_workgroups_per_dimension"]
    ELSE IF c.result_buf_size > unwrap(c.self.result_buffer).size
            \/ c.result_buf_size > unwrap(c.self.staging_buffer).size
    THEN [c EXCEPT !.panic = "copy_buffer_to_buffer: copy overruns a buffer"]
    ELSE LET s == c.self
             bg == unwrap(s.bind_group)
             ran == Workgroups(c.result_width) > 0 /\ Workgroups(c.result_height) > 0
             out == KernelOutput(unwrap(s.last_pipeline), s.uniform_buffer,
                        IF bg.input THEN Some(unwrap(s.input_buffer).data) ELSE None,
                        IF bg.template THEN Some(unwrap(s.template_buffer).data) ELSE None)
             copied == IF c.result_buf_size = 0 THEN Zeros
                       ELSE IF ran /\ bg.result THEN out
                       ELSE Stale
         IN  [c EXCEPT !.dispatched = TRUE,
                        !.self = [s EXCEPT !.queue = Append(@, copied),
                                           !.matching_ongoing = TRUE]]

\* TemplateMatcher::match_template
match_template(self, input, template, method, overflow_checks) ==
    LET c0 == MT_discard(self)
        c1 == MT_pipeline(c0, method)
        c2 == MT_input_buffer(c1, input)
        c3 == MT_template_buffer(c2, input, template)
        c4 == MT_result_size(c3, input, template, overflow_checks)
        c5 == MT_result_buffers(c4)
    IN  MT_dispatch(c5)

---------------------------------------------------------------------------
(* The compute kernels of the shader, the readback, and the free functions  *)
(* built on a fresh TemplateMatcher: ccorr, ccoeff, match_template.         *)

Min(a, b) == IF a < b THEN a ELSE b

RECURSIVE FSum(_)
FSum(values) ==
    IF values = <<>> THEN F(0)
    ELSE FAdd(values[1], FSum(Tail(values)))

\* one term of a kernel's sum, for a frame pixel a and a template pixel b
kernel_term(entry, a, b) ==
    CASE entry = "main_sae" -> LET d == FSub(a, b) IN <<Abs(d[1]), d[2]>>
      [] entry = "main_sse" -> FMul(FSub(a, b), FSub(a, b))
      [] OTHER -> FMul(a, b)

\* the kernel's score at offset (x, y): the sum of the terms over the
\* template's footprint, with the sizes the uniforms give
kernel_cell(entry, uniforms, input, template, x, y) ==
    FSum([k \in 1 .. uniforms.template_width * uniforms.template_height |->
            kernel_term(entry,
                input[(y + (k - 1) \div uniforms.template_width) * uniforms.input_width
                      + x + ((k - 1) % uniforms.template_width) + 1],
                template[k])])

\* the f32 values wait_for_result reads back for the buffer contents `result`
device_values(result) ==
    IF result.values.kind = "kernel"
        /\ is_some(result.values.input) /\ is_some(result.values.template)
    THEN LET u == result.values.uniforms
             result_width == u.input_width - u.template_width + 1
         IN  [k \in 1 .. result.len |->
                kernel_cell(result.values.entry_point, u,
                            unwrap(result.values.input), unwrap(result.values.template),
                            (k - 1) % result_width, (k - 1) \div result_width)]
    ELSE [k \in 1 .. result.len |-> F(0)]

\* Mul<f32> for Image
Image_mul(self, rhs) ==
    Image([k \in 1 .. Len(self.data) |-> FMul(self.data[k], rhs)], self.width, self.height)

\* Mul<Image> for Image: zip stops at the shorter of the two
Image_mul_image(self, rhs) ==
    Image([k \in 1 .. Min(Len(self.data), Len(rhs.data)) |->
              FMul(self.data[k], rhs.data[k])],
          self.width, self.height)

\* f32::sqrt, for the quotients of perfect squares
FSqrt(a) ==
    <<CHOOSE r \in 0 .. a[1] : r * r = a[1], CHOOSE r \in 1 .. a[2] : r * r = a[2]>>

\* Image::sqrt
Image_sqrt(self) ==
    Image([k \in 1 .. Len(self.data) |-> FSqrt(self.data[k])], self.width, self.height)

\* Div<f32> for Image
Image_div(self, rhs) == Image_mul(self, FRecip(rhs))

\* Add for Image: zip stops at the shorter of the two
Image_add(self, other) ==
    Image([k \in 1 .. Min(Len(self.data), Len(other.data)) |->
              FAdd(self.data[k], other.data[k])],
          self.width, self.height)

\* Sub for Image
Image_sub(self, other) ==
    Image([k \in 1 .. Min(Len(self.data), Len(other.data)) |->
              FSub(self.data[k], other.data[k])],
          self.width, self.height)

\* ImageBuffer::from_pixel
from_pixel(width, height, pixel) ==
    Image([k \in 1 .. width * height |-> pixel], width, height)

\* utils::image_mean: the mean of the pixels
image_mean(image) == FMul(FSum(image.data), FRecip(F(image.width * image.height)))

\* utils::square_sum: the sum of the squares of the pixels
square_sum(image) == FSum([k \in 1 .. Len(image.data) |-> FMul(image.data[k], image.data[k])])

\* what a free function yields: a panic, or the image it returns
Panicked(message) == [panic |-> message, ret |-> None]
Returned(image) == [panic |-> "", ret |-> Some(image)]
\* a function that returns a value that is not an image
ReturnedValue(value) == [panic |-> "", ret |-> Some(value)]
\* before a function is applied
NoResult == [panic |-> "", ret |-> None]

\* the shorthand of lines 40-42 and 98-100: a fresh matcher, match_template,
\* wait_for_result().unwrap(); map_ok: whether the readback succeeds
fresh_matcher_result(input, template, method, overflow_checks, map_ok) ==
    LET r == match_template(TemplateMatcher_new, input, template, method, overflow_checks)
        w == wait_for_result(r.self, map_ok)
    IN  IF r.panic # "" THEN Panicked(r.panic)
        ELSE IF is_none(w.ret) THEN Panicked("called Option::unwrap() on a None value")
        ELSE Returned(Image(device_values(unwrap(w.ret).data),
                            unwrap(w.ret).width, unwrap(w.ret).height))

\* ccorr
ccorr(input, template, overflow_checks, map_ok) ==
    fresh_matcher_result(input, template, "CrossCorrelation", overflow_checks, map_ok)

\* ccoeff, lines 66-71: the intermediate ic
ccoeff_ic(input, template, overflow_checks, map_ok) ==
    LET mask == from_pixel(template.width, template.height, F(0))
        n == F(template.width * template.height)
        i == input
    IN  Image_sub(i, Image_div(unwrap(ccorr(input, mask, overflow_checks, map_ok[1]).ret), n))

\* ccoeff with the template used as it is, not mean-subtracted
ccoeff_template_as_is(input, template, normed, overflow_checks, map_ok) ==
    ccorr(input, template, overflow_checks, map_ok[2])

\* ccoeff; map_ok: whether the readback of each of its three ccorr calls
\* succeeds
ccoeff(input, template, normed, overflow_checks, map_ok) ==
    LET mask == from_pixel(template.width, template.height, F(0))
        n == F(template.width * template.height)
        i == input
        ccorr_ic == ccorr(input, mask, overflow_checks, map_ok[1])
        ic == ccoeff_ic(input, template, overflow_checks, map_ok)
        mean_t == image_mean(template)
        tc == Image([k \in 1 .. Len(template.data) |-> FSub(template.data[k], mean_t)],
                    template.width, template.height)
        ccorr_i_tc == ccorr(input, tc, overflow_checks, map_ok[2])
        ccorr_i_m == ccorr(input, mask, overflow_checks, map_ok[3])
        mean_tc == image_mean(tc)
        res == Image_add(unwrap(ccorr_i_tc.ret),
                         Image_mul(unwrap(ccorr_i_m.ret), FNeg(mean_tc)))
        tc_sq_sum == square_sum(tc)
    IN  IF ccorr_ic.panic # "" THEN ccorr_ic
        ELSE IF ccorr_i_tc.panic # "" THEN ccorr_i_tc
        ELSE IF ccorr_i_m.panic # "" THEN ccorr_i_m
        ELSE IF normed THEN Returned(res)
        ELSE Returned(res)

\* the free function match_template
match_template_fn(input, template, method, overflow_checks, map_ok) ==
    CASE method = "CCOEFF" -> ccoeff(input, template, FALSE, overflow_checks, map_ok)
      [] method = "CCOEFF_NORMED" -> ccoeff(input, template, TRUE, overflow_checks, map_ok)
      [] OTHER -> fresh_matcher_result(input, template, "CCOEFF", overflow_checks, map_ok[1])

---------------------------------------------------------------------------
(* The scans of a score grid: find_extremes and find_matches.               *)

\* a < b on f32
FLt(a, b) == a[1] * b[2] < b[1] * a[2]

\* f32::MAX and f32::MIN: the largest and the smallest value of the model
F32_MAX == <<2147483647, 1>>
F32_MIN == <<-2147483647, 1>>

Extremes(min_value, max_value, min_value_location, max_value_location) ==
    [min_value |-> min_value, max_value |-> max_value,
     min_value_location |-> min_value_location,
     max_value_location |-> max_value_location]

\* the body of the loops keeping the last cell that holds an extreme
extremes_cell_last(e, x, y, value) ==
    LET e1 == IF ~FLt(e.min_value, value)
              THEN [e EXCEPT !.min_value = value, !.min_value_location = <<x, y>>]
              ELSE e
    IN  IF ~FLt(value, e1.max_value)
        THEN [e1 EXCEPT !.max_value = value, !.max_value_location = <<x, y>>]
        ELSE e1

\* the body of the loops of both find_extremes, for the cell (x, y)
extremes_cell(e, x, y, value) ==
    LET e1 == IF FLt(value, e.min_value)
              THEN [e EXCEPT !.min_value = value, !.min_value_location = <<x, y>>]
              ELSE e
    IN  IF FLt(e1.max_value, value)
        THEN [e1 EXCEPT !.max_value = value, !.max_value_location = <<x, y>>]
        ELSE e1

\* the cells idx, idx + 1, ... below count of a grid `width` wide, in the
\* order of the loops
RECURSIVE extremes_loop(_, _, _, _, _)
extremes_loop(e, data, width, count, idx) ==
    IF idx >= count THEN e
    ELSE extremes_loop(extremes_cell(e, idx % width, idx \div width, data[idx + 1]),
                       data, width, count, idx + 1)

\* find_extremes of lib.rs, on an Image
find_extremes(input) ==
    extremes_loop(Extremes(F32_MAX, F32_MIN, <<0, 0>>, <<0, 0>>),
                  input.data, input.width, input.width * input.height, 0)

\* ndarray::Array2: dim is (rows, columns), data the elements row by row
Array2(data, y_len, x_len) == [dim |-> <<y_len, x_len>>, data |-> data]

\* find_extremes of template_matching.rs, on an Array2
find_extremes_arr2(input) ==
    extremes_loop(Extremes(F32_MAX, F32_MIN, <<0, 0>>, <<0, 0>>),
                  input.data, input.dim[2], Len(input.data), 0)

Match(location, value) == [location |-> location, value |-> value]

\* the largest element of a non-empty set of numbers
Max(S) == CHOOSE a \in S : \A b \in S : b <= a

\* the body of the loops giving the match it merges into the value of the
\* cell without its location
matches_cell_value_only(matches, x, y, value, template_width, template_height, threshold) ==
    IF ~FLt(value, threshold) THEN matches
    ELSE LET found == {k \in 1 .. Len(matches) :
                          /\ Abs(matches[k].location[1] - x) < template_width
                          /\ Abs(matches[k].location[2] - y) < template_height}
         IN  IF found # {}
             THEN IF FLt(matches[Max(found)].value, value)
                  THEN [matches EXCEPT ![Max(found)].value = value]
                  ELSE matches
             ELSE Append(matches, Match(<<x, y>>, value))

\* the body of the loops of find_matches, for the cell (x, y)
matches_cell(matches, x, y, value, template_width, template_height, threshold) ==
    IF ~FLt(value, threshold) THEN matches
    ELSE LET found == {k \in 1 .. Len(matches) :
                          /\ Abs(matches[k].location[1] - x) < template_width
                          /\ Abs(matches[k].location[2] - y) < template_height}
         IN  IF found # {}
             THEN IF FLt(matches[Max(found)].value, value)
                  THEN [matches EXCEPT ![Max(found)] = Match(<<x, y>>, value)]
                  ELSE matches
             ELSE Append(matches, Match(<<x, y>>, value))

RECURSIVE matches_loop(_, _, _, _, _, _)
matches_loop(matches, input, template_width, template_height, threshold, idx) ==
    IF idx >= input.width * input.height THEN matches
    ELSE matches_loop(
            matches_cell(matches, idx % input.width, idx \div input.width,
                         input.data[idx + 1], template_width, template_height, threshold),
            input, template_width, template_height, threshold, idx + 1)

\* find_matches
find_matches(input, template_width, template_height, threshold) ==
    matches_loop(<<>>, input, template_width, template_height, threshold, 0)

---------------------------------------------------------------------------
(* BestMatcher of aah-core.                                                 *)

\* crate::vision::matcher::SSE_THRESHOLD; its value is outside the sources
\* at hand, and the model takes one between the scores of its images
SSE_THRESHOLD == F(1)

Rect(x, y, width, height) == [x |-> x, y |-> y, width |-> width, height |-> height]

\* lines 48-70 of result(): the verdict on the extremes of the score grid;
\* threshold is an Option, and so is what result() returns
BestMatcher_verdict(extrems, template, threshold) ==
    IF ~FLt(extrems.min_value,
            IF is_some(threshold) THEN unwrap(threshold) ELSE SSE_THRESHOLD)
    THEN ReturnedValue(None)
    ELSE ReturnedValue(Some(Rect(extrems.min_value_location[1],
                                 extrems.min_value_location[2],
                                 template.width, template.height)))

\* lines 40-70 of result(), for what match_template did
BestMatcher_scan(res, template, threshold) ==
    IF res.panic # "" THEN Panicked(res.panic)
    ELSE BestMatcher_verdict(find_extremes(unwrap(res.ret)), template, threshold)

\* BestMatcher::Template { image, template, threshold }.result()
BestMatcher_result(image, template, threshold, overflow_checks, map_ok) ==
    BestMatcher_scan(match_template_fn(image, template, "SumOfSquaredErrors",
                                       overflow_checks, map_ok),
                     template, threshold)

---------------------------------------------------------------------------
(* The classifier among candidates that DeployAnalyzer::analyze calls as    *)
(* BestMatcher::new(images).match_with(template).  A candidate is the best  *)
(* similarity the backend finds for the template in its image, or None      *)
(* where the template is larger than the image.                             *)

\* the similarity at which the classifier stops looking
EarlyExit == <<99, 100>>

\* what the classifier has done so far: the index and the score of the
\* running best (None before a candidate is matched), the indices of the candidates it matched, in order, and
\* whether it left the loop early
Classifying(best_index, best_score, matched, exited) ==
    [best_index |-> best_index, best_score |-> best_score,
     matched |-> matched, exited |-> exited]

\* the body of the loop without the early exit
classify_candidate_no_exit(c, idx, candidate) ==
    IF is_none(candidate) THEN c
    ELSE LET score == unwrap(candidate)
             better == is_none(c.best_score) \/ FLt(unwrap(c.best_score), score)
         IN  Classifying(IF better THEN idx ELSE c.best_index,
                         IF better THEN Some(score) ELSE c.best_score,
                         Append(c.matched, idx), FALSE)

\* the body of the loop, for the candidate of index idx: a candidate the
\* template does not fit is skipped; the others are matched, the running
\* best replaced by a strictly greater score, the loop left at EarlyExit
classify_candidate(c, idx, candidate) ==
    IF is_none(candidate) THEN c
    ELSE LET score == unwrap(candidate)
             better == is_none(c.best_score) \/ FLt(unwrap(c.best_score), score)
         IN  Classifying(IF better THEN idx ELSE c.best_index,
                         IF better THEN Some(score) ELSE c.best_score,
                         Append(c.matched, idx),
                         ~FLt(score, EarlyExit))

RECURSIVE classify_loop(_, _, _)
classify_loop(c, candidates, idx) ==
    IF idx >= Len(candidates) \/ c.exited THEN c
    ELSE classify_loop(classify_candidate(c, idx, candidates[idx + 1]), candidates, idx + 1)

\* match_with: the index of the best candidate and, beside it, the
\* candidates matched; it fails on an empty list
classify(candidates) ==
    IF candidates = <<>>
    THEN [panic |-> "NoCandidates", ret |-> None, matched |-> <<>>]
    ELSE LET c == classify_loop(Classifying(0, None, <<>>, FALSE), candidates, 0)
         IN  [panic |-> "", ret |-> Some(c.best_index), matched |-> c.matched]

---------------------------------------------------------------------------
(* The summed-area table of template_matching.rs.  An Array2 is indexed     *)
(* [y, x] and kept in row-major order.                                       *)

\* mat[[y, x]]
arr_at(mat, y, x) == mat.data[y * mat.dim[2] + x + 1]

\* mat.get([y, x]): None outside the array.  A usize that wrapped below zero
\* is kept as its negative representative, which is beyond every dimension.
arr_get(mat, y, x) ==
    IF y \in 0 .. mat.dim[1] - 1 /\ x \in 0 .. mat.dim[2] - 1
    THEN Some(arr_at(mat, y, x))
    ELSE None

\* *mat.get_mut((y, x)).unwrap() = v
arr_set(mat, y, x, v) == [mat EXCEPT !.data[y * mat.dim[2] + x + 1] = v]

\* the body of the loops without the subtraction of the cell counted twice
integral_cell_no_diagonal(res, cur_y, cur_x) ==
    LET r1 == IF cur_y > 0
              THEN arr_set(res, cur_y, cur_x,
                           FAdd(arr_at(res, cur_y, cur_x), arr_at(res, cur_y - 1, cur_x)))
              ELSE res
    IN  IF cur_x > 0
        THEN arr_set(r1, cur_y, cur_x,
                     FAdd(arr_at(r1, cur_y, cur_x), arr_at(r1, cur_y, cur_x - 1)))
        ELSE r1

\* the body of the loops of integral_arr2, for the cell [cur_y, cur_x]
integral_cell(res, cur_y, cur_x) ==
    IF cur_x > 0 /\ cur_y > 0
    THEN LET r1 == arr_set(res, cur_y, cur_x,
                           FAdd(arr_at(res, cur_y, cur_x), arr_at(res, cur_y - 1, cur_x)))
             r2 == arr_set(r1, cur_y, cur_x,
                           FAdd(arr_at(r1, cur_y, cur_x), arr_at(r1, cur_y, cur_x - 1)))
         IN  arr_set(r2, cur_y, cur_x,
                     FSub(arr_at(r2, cur_y, cur_x), arr_at(r2, cur_y - 1, cur_x - 1)))
    ELSE LET r1 == IF cur_y > 0
                   THEN arr_set(res, cur_y, cur_x,
                                FAdd(arr_at(res, cur_y, cur_x), arr_at(res, cur_y - 1, cur_x)))
                   ELSE res
         IN  IF cur_x > 0
             THEN arr_set(r1, cur_y, cur_x,
                          FAdd(arr_at(r1, cur_y, cur_x), arr_at(r1, cur_y, cur_x - 1)))
             ELSE r1

RECURSIVE integral_loop(_, _)
integral_loop(res, idx) ==
    IF idx >= res.dim[1] * res.dim[2] THEN res
    ELSE integral_loop(integral_cell(res, idx \div res.dim[2], idx % res.dim[2]), idx + 1)

integral_arr2(mat) == integral_loop(mat, 0)

subsum_from_integral_arrf32(integral_mat, x, y, width, height, overflow_checks) ==
    LET left == x
        top == y
        right == x + width - 1
        bottom == y + height - 1
    IN  IF ~(x + width - 1 < integral_mat.dim[2])
        THEN Panicked("assertion failed: x + width - 1 < integral_mat.dim().1")
        ELSE IF ~(y + height - 1 < integral_mat.dim[1])
        THEN Panicked("assertion failed: y + height - 1 < integral_mat.dim().0")
        ELSE IF overflow_checks /\ (top = 0 \/ left = 0)
        THEN Panicked("attempt to subtract with overflow")
        ELSE LET res == arr_at(integral_mat, bottom, right)
                 top_left == arr_get(integral_mat, top - 1, left - 1)
                 r1 == IF is_some(top_left) THEN FAdd(res, unwrap(top_left)) ELSE res
                 bottom_left == arr_get(integral_mat, bottom, left - 1)
                 r2 == IF is_some(bottom_left) THEN FSub(r1, unwrap(bottom_left)) ELSE r1
                 top_right == arr_get(integral_mat, top - 1, right)
             IN  ReturnedValue(IF is_some(top_right) THEN FSub(r2, unwrap(top_right)) ELSE r2)

subsum_from_integral_arrf64(integral_mat, x, y, width, height) ==
    LET left == x
        top == y
        right == x + width - 1
        bottom == y + height - 1
    IN  IF ~(x + width - 1 < integral_mat.dim[2])
        THEN Panicked("assertion failed: x + width - 1 < integral_mat.dim().1")
        ELSE IF ~(y + height - 1 < integral_mat.dim[1])
        THEN Panicked("assertion failed: y + height - 1 < integral_mat.dim().0")
        ELSE LET res == arr_at(integral_mat, bottom, right)
             IN  IF x > 0 /\ y > 0
                 THEN ReturnedValue(FSub(FSub(FAdd(res, arr_at(integral_mat, top - 1, left - 1)),
                                              arr_at(integral_mat, bottom, left - 1)),
                                         arr_at(integral_mat, top - 1, right)))
                 ELSE IF x > 0
                 THEN ReturnedValue(FSub(res, arr_at(integral_mat, bottom, left - 1)))
                 ELSE IF y > 0
                 THEN ReturnedValue(FSub(res, arr_at(integral_mat, top - 1, right)))
                 ELSE ReturnedValue(res)


---------------------------------------------------------------------------
(* match_template of template_matching.rs: the normalized correlation on    *)
(* the CPU, in f64.                                                          *)

\* f64 division: 0.0 / 0.0 is NaN, kept as <<0, 0>>, and x / 0.0 an infinity
FDiv(a, b) ==
    IF b[1] = 0
    THEN (IF a[1] = 0 THEN <<0, 0>> ELSE IF a[1] > 0 THEN <<1, 0>> ELSE <<-1, 0>>)
    ELSE FMul(a, FRecip(b))

\* fftcorrelate(&image, &kernel, Mode::Valid) at [y, x]: the sum of the
\* products of the kernel and the patch of the image under it
fftcorrelate_cell(image, kernel, x, y) ==
    FSum([i \in 1 .. Len(kernel.data) |->
            FMul(arr_at(image, y + ((i - 1) \div kernel.dim[2]),
                        x + ((i - 1) % kernel.dim[2])),
                 kernel.data[i])])

\* mat.map(|x| x * x)
arr_squared(mat) ==
    [mat EXCEPT !.data = [k \in 1 .. Len(mat.data) |-> FMul(mat.data[k], mat.data[k])]]

\* kernel_sqsum / kernel.len() - kernel_avg * kernel_avg, and the same of a patch
variance(sum, sqsum, len) ==
    FSub(FDiv(sqsum, F(len)), FMul(FDiv(sum, F(len)), FDiv(sum, F(len))))

\* the body of the loops with the correlation left as it is, the product of
\* the sums not subtracted
normalize_cell_raw(image, kernel, x, y) ==
    LET len == Len(kernel.data)
        kernel_var == variance(FSum(kernel.data), FSum(arr_squared(kernel).data), len)
        value_sum == unwrap(subsum_from_integral_arrf64(integral_arr2(image),
                                x, y, kernel.dim[2], kernel.dim[1]).ret)
        value_sqsum == unwrap(subsum_from_integral_arrf64(integral_arr2(arr_squared(image)),
                                x, y, kernel.dim[2], kernel.dim[1]).ret)
        value_var == variance(value_sum, value_sqsum, len)
    IN  FDiv(fftcorrelate_cell(image, kernel, x, y),
             FMul(FSqrt(FMul(value_var, kernel_var)), F(len)))

\* the body of the loops of match_template, for the cell [y, x]
normalize_cell(image, kernel, x, y) ==
    LET len == Len(kernel.data)
        kernel_sum == FSum(kernel.data)
        kernel_avg == FDiv(kernel_sum, F(len))
        kernel_var == variance(kernel_sum, FSum(arr_squared(kernel).data), len)
        value_sum == unwrap(subsum_from_integral_arrf64(integral_arr2(image),
                                x, y, kernel.dim[2], kernel.dim[1]).ret)
        value_sqsum == unwrap(subsum_from_integral_arrf64(integral_arr2(arr_squared(image)),
                                x, y, kernel.dim[2], kernel.dim[1]).ret)
        value_var == variance(value_sum, value_sqsum, len)
    IN  FDiv(FSub(fftcorrelate_cell(image, kernel, x, y), FMul(value_sum, kernel_avg)),
             FMul(FSqrt(FMul(value_var, kernel_var)), F(len)))

\* match_template(&image, &kernel), for a kernel that fits the image
match_template_arr2(image, kernel) ==
    LET y_len == image.dim[1] - kernel.dim[1] + 1
        x_len == image.dim[2] - kernel.dim[2] + 1
    IN  Array2([k \in 1 .. y_len * x_len |->
                   normalize_cell(image, kernel, (k - 1) % x_len, (k - 1) \div x_len)],
               y_len, x_len)

---------------------------------------------------------------------------
(* The screen cache of AAH (aah-core): a Mutex<Option<DynamicImage>> that   *)
(* the threads sharing the instance lock for the length of a call.  An      *)
(* image is the number of the capture that took it.                          *)

Threads == {1, 2}

\* Result<DynamicImage, String>
Ok(image) == [ok |-> Some(image), err |-> ""]
Err(message) == [ok |-> None, err |-> message]

\* A thread: where it is in its call (idle before its first call, done after
\* a call), the function it calls, what the call returned, whether the call
\* is the thread's first, whether the cache was empty when the call began,
\* and the image the call captured.
Thread(pc, op, ret, first, saw_empty, captured) ==
    [pc |-> pc, op |-> op, ret |-> ret, first |-> first,
     saw_empty |-> saw_empty, captured |-> captured]

\* AAH::connect, line 95: an empty cache behind a free mutex.  captures: the
\* calls of controller.screencap() so far, oldest first.
AAH_connect ==
    [screen_cache |-> None,
     lock |-> None,
     threads |-> [t \in Threads |-> Thread("idle", "", None, FALSE, FALSE, None)],
     captures |-> <<>>]

\* a thread enters screen_cache_or_cap or screen_cap_and_cache
begin_call(self, t, op) ==
    [self EXCEPT !.threads[t] =
        Thread("lock", op, None, self.threads[t].pc = "idle",
               is_none(self.screen_cache), None)]

\* a mutex any thread can take at any time
can_lock_unguarded(self) == TRUE

\* self.screen_cache.lock() returns once no thread holds the mutex
can_lock(self) == is_none(self.lock)

\* every call captures
needs_capture_always(op, screen_cache) == TRUE

\* line 122: screen_cache_or_cap captures if screen_cache.is_none();
\* screen_cap_and_cache always does
needs_capture(op, screen_cache) ==
    op = "screen_cap_and_cache" \/ is_none(screen_cache)

\* lines 121-122 and 136: the thread takes the mutex and looks at the cache
lock(self, t) ==
    [self EXCEPT !.lock = Some(t),
                 !.threads[t].pc =
                     IF needs_capture(self.threads[t].op, self.screen_cache)
                     THEN "screencap" ELSE "return"]

\* lines 123-127 and 137-141: controller.screencap() and what follows.  A
\* capture that fails returns the error through `?`, which drops the guard;
\* one that succeeds is stored in the cache.
screencap(self, t, ok) ==
    LET image == Len(self.captures) + 1
        log == Append(self.captures, [thread |-> t, ok |-> ok, image |-> image])
    IN  IF ok
        THEN [self EXCEPT !.screen_cache = Some(image),
                          !.captures = log,
                          !.threads[t].captured = Some(image),
                          !.threads[t].pc = "return"]
        ELSE [self EXCEPT !.captures = log,
                          !.lock = None,
                          !.threads[t].ret = Some(Err("screencap")),
                          !.threads[t].pc = "done"]

\* lines 129-132 and 142-145: a clone of the cached image is returned and
\* the guard dropped
return_cached(self, t) ==
    [self EXCEPT !.lock = None,
                 !.threads[t].ret =
                     Some(IF is_some(self.screen_cache)
                          THEN Ok(unwrap(self.screen_cache))
                          ELSE Err("screen cache is empty")),
                 !.threads[t].pc = "done"]

---------------------------------------------------------------------------
(* MultiMatchAnalyzer::analyze (aah-core) and Controller::connect.          *)

\* one call of screen_cache_or_cap or screen_cap_and_cache by thread t, from
\* its entry to its return; ok: whether a capture it makes succeeds
screen_call(self, t, op, ok) ==
    LET locked == lock(begin_call(self, t, op), t)
    IN  IF locked.threads[t].pc = "screencap"
        THEN (IF ok THEN return_cached(screencap(locked, t, ok), t)
              ELSE screencap(locked, t, ok))
        ELSE return_cached(locked, t)

\* (fraction * length as f32) as u32: the cast truncates, and maps what is
\* negative to 0
roi_pixel(fraction, length) ==
    IF fraction[1] <= 0 THEN 0 ELSE (fraction[1] * length) \div fraction[2]

\* lines 79-88: the top-left and the bottom-right pixel of the region
roi_pixels(roi, screen_size) ==
    [tl |-> <<roi_pixel(roi[1][1], screen_size[1]), roi_pixel(roi[1][2], screen_size[2])>>,
     br |-> <<roi_pixel(roi[2][1], screen_size[1]), roi_pixel(roi[2][2], screen_size[2])>>]

\* the rects moved along x only
translate_rects_x_only(rects, tl) ==
    [k \in 1 .. Len(rects) |-> [rects[k] EXCEPT !.x = @ + tl[1]]]

\* lines 127-135: the rects of the matcher moved by the region's top-left
translate_rects(rects, tl) ==
    [k \in 1 .. Len(rects) |-> [rects[k] EXCEPT !.x = @ + tl[1], !.y = @ + tl[2]]]

\* MultiMatchAnalyzer::analyze.  self: use_cache and roi; core: the AAH;
\* screen_size: the size of the device's screen; ok: whether a capture
\* succeeds; matched: the rects MultiMatcher finds in the cropped screen.
\* Yields the AAH after the call and the rects returned, or the error.
analyze(self, core, screen_size, ok, matched) ==
    LET after == screen_call(core, 1,
                     IF self.use_cache THEN "screen_cache_or_cap"
                     ELSE "screen_cap_and_cache", ok)
        screen == unwrap(after.threads[1].ret)
    IN  IF is_none(screen.ok)
        THEN [core |-> after, result |-> Err(screen.err)]
        ELSE [core |-> after,
              result |-> Ok(translate_rects(matched, roi_pixels(self.roi, screen_size).tl))]

\* Controller::connect.  connected: whether adb connects; captured: whether
\* the screen capture succeeds; screen_size: the size of the screen captured.
Controller_connect(connected, captured, screen_size) ==
    IF ~connected THEN Err("connect")
    ELSE IF ~captured THEN Err("screencap")
    ELSE Ok([width |-> screen_size[1], height |-> screen_size[1]])

---------------------------------------------------------------------------
(* A session: one TemplateMatcher driven by a caller.                       *)

VARIABLES
    matcher,          \* the TemplateMatcher
    overflow_checks,  \* the build: whether integer overflow panics (debug) or wraps
    call,             \* the last call made on the matcher and what it did
    hist,             \* what the caller passed before: see Hist
    applied,          \* a free function applied to a frame and a template: see Applied
    aah               \* the AAH instance and the threads calling it: see AAH_connect

vars == <<matcher, overflow_checks, call, hist, applied, aah>>

Sizes == {wh \in (1 .. MaxArea) \X Heights : wh[1] * wh[2] <= MaxArea}

\* a width x height image filled with the pixel value fill
Filled(width, height, fill) ==
    Image([i \in 1 .. width * height |-> F(fill)], width, height)

Frames == {Filled(wh[1], wh[2], FramePixel) : wh \in Sizes}
Templates == {Filled(wh[1], wh[2], TemplatePixel) : wh \in Sizes}

size_of(image) == <<image.width, image.height>>

\* What the caller has done so far, kept beside the matcher:
\*   sizes: the frame and template sizes of the last match_template call that
\*     got as far as its buffers (None before the first);
\*   pending: the frame, template and method of the match_template call whose
\*     computation was submitted and has not been waited for since (None when
\*     there is none).
Hist(sizes, pending) == [sizes |-> sizes, pending |-> pending]

\* The last call and what it did.  r is the result record of match_template
\* (NoEffect for the other calls), ret what wait_for_result returned, map_ok
\* whether the readback of that wait_for_result succeeded, oversize whether
\* the template passed was wider or taller than the frame.  discarded: of a
\* match_template, whether it discarded a result that was not collected; of
\* a wait_for_result, whether the match_template call just before it did.
Call(op, method, oversize, r, ret, map_ok, discarded) ==
    [op |-> op, method |-> method, oversize |-> oversize,
     panic |-> r.panic, ret |-> ret, map_ok |-> map_ok,
     discarded |-> discarded, compiled |-> r.compiled,
     created |-> r.created, written |-> r.written,
     dispatched |-> r.dispatched]

NoEffect == MT_discard(TemplateMatcher_new)

\* A free function applied: op is its name ("" before it is applied), input
\* and template what it is applied to, method its method argument, map_ok
\* whether the readbacks of the matchers it creates succeed, in order, and
\* result what it yields.
Applied(op, input, template, method, map_ok, result) ==
    [op |-> op, input |-> input, template |-> template, method |-> method,
     map_ok |-> map_ok, result |-> result]

\* the session applies no free function
NotApplied ==
    Applied("", Filled(1, 1, FramePixel), Filled(1, 1, TemplatePixel), "",
            <<TRUE, TRUE, TRUE>>, NoResult)

Init ==
    /\ matcher = TemplateMatcher_new
    /\ overflow_checks \in BOOLEAN
    /\ call = Call("new", "", FALSE, NoEffect, None, TRUE, FALSE)
    /\ hist = Hist(None, None)
    /\ aah = AAH_connect
    /\ applied = NotApplied

\* let mut matcher = TemplateMatcher::new()
Construct ==
    /\ matcher' = TemplateMatcher_new
    /\ call' = Call("new", "", FALSE, NoEffect, None, TRUE, FALSE)
    /\ hist' = Hist(None, None)
    /\ UNCHANGED <<overflow_checks, applied, aah>>

\* matcher.match_template(input, template, method)
MatchTemplate ==
    \E input \in Frames, template \in Templates, method \in MatchTemplateMethod :
        LET r == match_template(matcher, input, template, method, overflow_checks)
        IN  /\ matcher' = r.self
            /\ call' = Call("match_template", method,
                            template.width > input.width \/ template.height > input.height,
                            r, None, TRUE, r.discarded)
            /\ hist' = Hist(
                   IF r.panic = "not implemented yet"
                   THEN hist.sizes
                   ELSE Some(<<size_of(input), size_of(template)>>),
                   IF r.dispatched
                   THEN Some([input |-> input, template |-> template, method |-> method])
                   ELSE None)
            /\ UNCHANGED <<overflow_checks, applied, aah>>

\* matcher.wait_for_result()
WaitForResult ==
    \E map_ok \in BOOLEAN :
        LET r == wait_for_result(matcher, map_ok)
        IN  /\ matcher' = r.self
            /\ call' = Call("wait_for_result", "", FALSE, NoEffect, r.ret,
                            map_ok \/ is_none(r.ret),
                            call.op = "match_template" /\ call.discarded)
            /\ hist' = Hist(hist.sizes, None)
            /\ UNCHANGED <<overflow_checks, applied, aah>>

Next == Construct \/ MatchTemplate \/ WaitForResult

Spec == Init /\ [][Next]_vars

---------------------------------------------------------------------------
(* The free functions applied to a frame and a template.                    *)

Images(max_pixels) ==
    UNION {{Image(data, wh[1], wh[2]) : data \in [1 .. wh[1] * wh[2] -> {F(v) : v \in Pixels}]} :
            wh \in {wh \in (1 .. max_pixels) \X Heights : wh[1] * wh[2] <= max_pixels}}

InitFn ==
    /\ matcher = TemplateMatcher_new
    /\ overflow_checks \in BOOLEAN
    /\ call = Call("new", "", FALSE, NoEffect, None, TRUE, FALSE)
    /\ hist = Hist(None, None)
    /\ aah = AAH_connect
    /\ \E input \in Images(MaxPixels), template \in Images(MaxTemplatePixels) :
            applied = Applied("", input, template, "", <<TRUE, TRUE, TRUE>>, NoResult)

\* match_template(&input, &template, method)
ApplyMatchTemplate ==
    /\ applied.op = ""
    /\ \E method \in MatchTemplateMethod, map_ok \in BOOLEAN \X BOOLEAN \X BOOLEAN :
            applied' = Applied("match_template", applied.input, applied.template,
                               method, map_ok,
                               match_template_fn(applied.input, applied.template, method,
                                                 overflow_checks, map_ok))
    /\ UNCHANGED <<matcher, overflow_checks, call, hist, aah>>

\* ccorr(&input, &template)
ApplyCcorr ==
    /\ applied.op = ""
    /\ \E map_ok \in BOOLEAN :
            applied' = Applied("ccorr", applied.input, applied.template,
                               "CrossCorrelation", <<map_ok, TRUE, TRUE>>,
                               ccorr(applied.input, applied.template,
                                     overflow_checks, map_ok))
    /\ UNCHANGED <<matcher, overflow_checks, call, hist, aah>>

\* the thresholds a BestMatcher is given
MatcherThresholds == {None, Some(F(2))}

\* BestMatcher::Template { image, template, threshold }.result()
ApplyBestMatcher ==
    /\ applied.op = ""
    /\ \E threshold \in MatcherThresholds, map_ok \in BOOLEAN :
            applied' = [op |-> "BestMatcher_result", input |-> applied.input,
                        template |-> applied.template, method |-> "SumOfSquaredErrors",
                        map_ok |-> <<map_ok, TRUE, TRUE>>, threshold |-> threshold,
                        result |-> BestMatcher_result(applied.input, applied.template,
                                       threshold, overflow_checks, <<map_ok, TRUE, TRUE>>)]
    /\ UNCHANGED <<matcher, overflow_checks, call, hist, aah>>

NextFn == ApplyMatchTemplate \/ ApplyCcorr \/ ApplyBestMatcher

SpecFn == InitFn /\ [][NextFn]_vars

---------------------------------------------------------------------------
(* The Image algebra applied to two images, or to an image and a scalar.    *)

Scalars == {F(2), <<1, 2>>}

InitAlg ==
    /\ matcher = TemplateMatcher_new
    /\ overflow_checks = TRUE
    /\ call = Call("new", "", FALSE, NoEffect, None, TRUE, FALSE)
    /\ hist = Hist(None, None)
    /\ aah = AAH_connect
    /\ \E self \in Images(MaxTemplatePixels), other \in Images(MaxTemplatePixels) :
            applied = [op |-> "", self |-> self, other |-> other,
                       rhs |-> F(1), result |-> NoResult]

AlgResult(op, rhs, image) ==
    /\ applied.op = ""
    /\ applied' = [applied EXCEPT !.op = op, !.rhs = rhs, !.result = Returned(image)]
    /\ UNCHANGED <<matcher, overflow_checks, call, hist, aah>>

\* self + other
ApplyAdd == AlgResult("add", F(1), Image_add(applied.self, applied.other))

\* self - other
ApplySub == AlgResult("sub", F(1), Image_sub(applied.self, applied.other))

\* self * other
ApplyMulImage == AlgResult("mul", F(1), Image_mul_image(applied.self, applied.other))

\* self * rhs
ApplyMulF32 == \E rhs \in Scalars : AlgResult("mul_f32", rhs, Image_mul(applied.self, rhs))

\* self / rhs
ApplyDivF32 == \E rhs \in Scalars : AlgResult("div_f32", rhs, Image_div(applied.self, rhs))

\* self.sqrt()
ApplySqrt == AlgResult("sqrt", F(1), Image_sqrt(applied.self))

NextAlg ==
    ApplyAdd \/ ApplySub \/ ApplyMulImage \/ ApplyMulF32 \/ ApplyDivF32 \/ ApplySqrt

SpecAlg == InitAlg /\ [][NextAlg]_vars

---------------------------------------------------------------------------
(* The scans applied to a score grid.                                       *)

Grids(max_cells, values) ==
    UNION {{Image(data, wh[1], wh[2]) : data \in [1 .. wh[1] * wh[2] -> {F(v) : v \in values}]} :
            wh \in {wh \in (1 .. max_cells) \X Heights : wh[1] * wh[2] <= max_cells}}

\* A scan applied: op is its name ("" before it is applied), input the grid,
\* args its other arguments and result what it returns.
Scanned(op, input, args, result) ==
    [op |-> op, input |-> input, args |-> args, result |-> result]

InitScan ==
    /\ matcher = TemplateMatcher_new
    /\ overflow_checks = TRUE
    /\ call = Call("new", "", FALSE, NoEffect, None, TRUE, FALSE)
    /\ hist = Hist(None, None)
    /\ aah = AAH_connect
    /\ \E input \in Grids(MaxCells, GridValues) :
            applied = Scanned("", input, <<>>, <<>>)

\* find_extremes(&input) of lib.rs
ApplyFindExtremes ==
    /\ applied.op = ""
    /\ applied' = Scanned("find_extremes", applied.input, <<>>,
                          find_extremes(applied.input))
    /\ UNCHANGED <<matcher, overflow_checks, call, hist, aah>>

\* find_extremes(&input) of template_matching.rs
ApplyFindExtremesArr2 ==
    /\ applied.op = ""
    /\ applied' = Scanned("find_extremes_arr2", applied.input, <<>>,
                          find_extremes_arr2(Array2(applied.input.data,
                              applied.input.height, applied.input.width)))
    /\ UNCHANGED <<matcher, overflow_checks, call, hist, aah>>

\* find_matches(&input, template_width, template_height, threshold)
ApplyFindMatches ==
    /\ applied.op = ""
    /\ \E template_width \in 1 .. MaxFootprint, template_height \in Heights,
          threshold \in {F(v) : v \in Thresholds} :
            applied' = Scanned("find_matches", applied.input,
                               [template_width |-> template_width,
                                template_height |-> template_height,
                                threshold |-> threshold],
                               find_matches(applied.input, template_width,
                                            template_height, threshold))
    /\ UNCHANGED <<matcher, overflow_checks, call, hist, aah>>

NextScan == ApplyFindExtremes \/ ApplyFindExtremesArr2 \/ ApplyFindMatches

SpecScan == InitScan /\ [][NextScan]_vars

---------------------------------------------------------------------------
(* The classifier applied to a list of candidates.                          *)

\* at most MaxCandidates candidates, each with one of these best
\* similarities or too small for the template
MaxCandidates == 3
Similarities == {None, Some(<<1, 2>>), Some(EarlyExit), Some(F(1))}

CandidateLists(max_candidates) ==
    UNION {[1 .. n -> Similarities] : n \in 0 .. max_candidates}

InitClassify ==
    /\ matcher = TemplateMatcher_new
    /\ overflow_checks = TRUE
    /\ call = Call("new", "", FALSE, NoEffect, None, TRUE, FALSE)
    /\ hist = Hist(None, None)
    /\ aah = AAH_connect
    /\ \E candidates \in CandidateLists(MaxCandidates) :
            applied = Scanned("", candidates, <<>>, <<>>)

\* matcher.match_with(template)
ApplyClassify ==
    /\ applied.op = ""
    /\ applied' = Scanned("match_with", applied.input, <<>>, classify(applied.input))
    /\ UNCHANGED <<matcher, overflow_checks, call, hist, aah>>

NextClassify == ApplyClassify

SpecClassify == InitClassify /\ [][NextClassify]_vars

---------------------------------------------------------------------------
(* The threads of an AAH instance calling the screen cache.                 *)

\* calls begin while fewer than MaxCaptures captures were made or may yet be
MaxCaptures == 3

InitCache ==
    /\ matcher = TemplateMatcher_new
    /\ overflow_checks = TRUE
    /\ call = Call("new", "", FALSE, NoEffect, None, TRUE, FALSE)
    /\ hist = Hist(None, None)
    /\ applied = NotApplied
    /\ aah = AAH_connect

\* the threads in a call
calling(self) == {t \in Threads : self.threads[t].pc \notin {"idle", "done"}}

\* core.screen_cache_or_cap() is called
BeginScreenCacheOrCap ==
    /\ \E t \in Threads \ calling(aah) :
          /\ Len(aah.captures) + Cardinality(calling(aah)) < MaxCaptures
          /\ aah' = begin_call(aah, t, "screen_cache_or_cap")
    /\ UNCHANGED <<matcher, overflow_checks, call, hist, applied>>

\* core.screen_cap_and_cache() is called
BeginScreenCapAndCache ==
    /\ \E t \in Threads \ calling(aah) :
          /\ Len(aah.captures) + Cardinality(calling(aah)) < MaxCaptures
          /\ aah' = begin_call(aah, t, "screen_cap_and_cache")
    /\ UNCHANGED <<matcher, overflow_checks, call, hist, applied>>

\* a thread gets the mutex
Lock ==
    /\ \E t \in Threads :
          /\ aah.threads[t].pc = "lock"
          /\ can_lock(aah)
          /\ aah' = lock(aah, t)
    /\ UNCHANGED <<matcher, overflow_checks, call, hist, applied>>

\* a thread captures the screen, or fails to
Screencap ==
    /\ \E t \in Threads, ok \in BOOLEAN :
          /\ aah.threads[t].pc = "screencap"
          /\ aah' = screencap(aah, t, ok)
    /\ UNCHANGED <<matcher, overflow_checks, call, hist, applied>>

\* a thread returns the cached image
ReturnCached ==
    /\ \E t \in Threads :
          /\ aah.threads[t].pc = "return"
          /\ aah' = return_cached(aah, t)
    /\ UNCHANGED <<matcher, overflow_checks, call, hist, applied>>

NextCache ==
    \/ BeginScreenCacheOrCap
    \/ BeginScreenCapAndCache
    \/ Lock
    \/ Screencap
    \/ ReturnCached

SpecCache == InitCache /\ [][NextCache]_vars

---------------------------------------------------------------------------
(* MultiMatchAnalyzer::analyze applied to a screen.                         *)

\* the sizes of the screen, the regions of interest (top-left, bottom-right,
\* as fractions of the screen) and the sizes of the template
ScreenSizes == {<<4, 2>>, <<2, 2>>}
Rois == {<<<<F(0), F(0)>>, <<F(1), F(1)>>>>,
         <<<<F(0), <<1, 2>>>>, <<F(1), F(1)>>>>,
         <<<<<<1, 2>>, <<1, 2>>>>, <<F(1), F(1)>>>>}
TemplateSizes == {<<1, 1>>, <<2, 1>>}

\* MultiMatcher returns at most MaxRects rects
MaxRects == 2

\* the rects of a template's size inside a cropped screen
RectsIn(crop_size, template_size) ==
    {Rect(x, y, template_size[1], template_size[2]) :
        x \in 0 .. crop_size[1] - template_size[1],
        y \in 0 .. crop_size[2] - template_size[2]}

InitAnalyze ==
    /\ matcher = TemplateMatcher_new
    /\ overflow_checks = TRUE
    /\ call = Call("new", "", FALSE, NoEffect, None, TRUE, FALSE)
    /\ hist = Hist(None, None)
    /\ aah = AAH_connect
    /\ \E screen_size \in ScreenSizes, roi \in Rois, template_size \in TemplateSizes :
          LET px == roi_pixels(roi, screen_size)
              crop_size == <<px.br[1] - px.tl[1], px.br[2] - px.tl[2]>>
          IN  \E n \in 0 .. MaxRects :
                \E matched \in [1 .. n -> RectsIn(crop_size, template_size)] :
                    applied = Scanned("", [screen_size |-> screen_size, roi |-> roi,
                                           matched |-> matched], <<>>, <<>>)

\* analyzer.analyze(&core)
ApplyAnalyze ==
    /\ applied.op = ""
    /\ \E use_cache \in BOOLEAN, ok \in BOOLEAN :
          LET self == [use_cache |-> use_cache, roi |-> applied.input.roi]
              r == analyze(self, aah, applied.input.screen_size, ok, applied.input.matched)
          IN  /\ aah' = r.core
              /\ applied' = Scanned("analyze", applied.input, self, r.result)
    /\ UNCHANGED <<matcher, overflow_checks, call, hist>>

NextAnalyze == ApplyAnalyze

SpecAnalyze == InitAnalyze /\ [][NextAnalyze]_vars

---------------------------------------------------------------------------
(* Controller::connect applied to a device.                                 *)

\* the screen of the device is at most MaxScreen wide and high
MaxScreen == 8

InitController ==
    /\ matcher = TemplateMatcher_new
    /\ overflow_checks = TRUE
    /\ call = Call("new", "", FALSE, NoEffect, None, TRUE, FALSE)
    /\ hist = Hist(None, None)
    /\ aah = AAH_connect
    /\ \E screen_size \in (1 .. MaxScreen) \X (1 .. MaxScreen) :
            applied = Scanned("", screen_size, <<>>, <<>>)

\* Controller::connect(device_serial)
ApplyConnect ==
    /\ applied.op = ""
    /\ \E connected \in BOOLEAN, captured \in BOOLEAN :
            applied' = Scanned("connect", applied.input,
                               [connected |-> connected, captured |-> captured],
                               Controller_connect(connected, captured, applied.input))
    /\ UNCHANGED <<matcher, overflow_checks, call, hist, aah>>

NextController == ApplyConnect

SpecController == InitController /\ [][NextController]_vars

---------------------------------------------------------------------------
(* The summed-area table built and queried.                                 *)

\* the arrays of at most max_cells binary cells, in one or two rows
Arrays(max_cells) ==
    {Array2(image.data, image.height, image.width) : image \in Images(max_cells)}

InitTable ==
    /\ matcher = TemplateMatcher_new
    /\ overflow_checks \in BOOLEAN
    /\ call = Call("new", "", FALSE, NoEffect, None, TRUE, FALSE)
    /\ hist = Hist(None, None)
    /\ aah = AAH_connect
    /\ \E mat \in Arrays(MaxPixels) :
            applied = Scanned("", mat, <<>>, NoResult)

\* integral_arr2(&mat)
ApplyIntegral ==
    /\ applied.op = ""
    /\ applied' = Scanned("integral_arr2", applied.input, <<>>,
                          ReturnedValue(integral_arr2(applied.input)))
    /\ UNCHANGED <<matcher, overflow_checks, call, hist, aah>>

\* the rectangles asked for: every one inside the largest array and some
\* beyond the array at hand
Rectangles ==
    [x : 0 .. MaxPixels - 1, y : {h - 1 : h \in Heights},
     width : 1 .. MaxPixels, height : Heights]

\* subsum_from_integral_arrf32(&integral_arr2(&mat), x, y, width, height)
ApplySubsumF32 ==
    /\ applied.op = ""
    /\ \E args \in Rectangles :
            applied' = Scanned("subsum_from_integral_arrf32", applied.input, args,
                               subsum_from_integral_arrf32(integral_arr2(applied.input),
                                   args.x, args.y, args.width, args.height, overflow_checks))
    /\ UNCHANGED <<matcher, overflow_checks, call, hist, aah>>

\* subsum_from_integral_arrf64(&integral_arr2(&mat), x, y, width, height)
ApplySubsumF64 ==
    /\ applied.op = ""
    /\ \E args \in Rectangles :
            applied' = Scanned("subsum_from_integral_arrf64", applied.input, args,
                               subsum_from_integral_arrf64(integral_arr2(applied.input),
                                   args.x, args.y, args.width, args.height))
    /\ UNCHANGED <<matcher, overflow_checks, call, hist, aah>>

\* the sum of the cells of mat in the rectangle at (x, y), width by height
rect_sum(mat, x, y, width, height) ==
    FSum([i \in 1 .. width * height |->
            arr_at(mat, y + ((i - 1) \div width), x + ((i - 1) % width))])

\* f64::sqrt is exact on a: a quotient of perfect squares
sqrt_exact(a) ==
    /\ \E r \in 0 .. a[1] : r * r = a[1]
    /\ \E r \in 1 .. a[2] : r * r = a[2]

\* the kernels match_template is given for an image: those that fit it and
\* under which every square root taken is exact
Kernels(image) ==
    {kernel \in Arrays(MaxPixels) :
        /\ kernel.dim[1] <= image.dim[1]
        /\ kernel.dim[2] <= image.dim[2]
        /\ \A y \in 0 .. image.dim[1] - kernel.dim[1], x \in 0 .. image.dim[2] - kernel.dim[2] :
              sqrt_exact(FMul(
                  variance(rect_sum(image, x, y, kernel.dim[2], kernel.dim[1]),
                           rect_sum(arr_squared(image), x, y, kernel.dim[2], kernel.dim[1]),
                           Len(kernel.data)),
                  variance(FSum(kernel.data), FSum(arr_squared(kernel).data),
                           Len(kernel.data))))}

\* match_template(&image, &kernel) of template_matching.rs
ApplyMatchTemplateArr2 ==
    /\ applied.op = ""
    /\ \E kernel \in Kernels(applied.input) :
            applied' = Scanned("match_template_arr2", applied.input, [kernel |-> kernel],
                               ReturnedValue(match_template_arr2(applied.input, kernel)))
    /\ UNCHANGED <<matcher, overflow_checks, call, hist, aah>>

NextTable == ApplyIntegral \/ ApplySubsumF32 \/ ApplySubsumF64 \/ ApplyMatchTemplateArr2

SpecTable == InitTable /\ [][NextTable]_vars

---------------------------------------------------------------------------
(* The claims about a session.                                              *)

\* the size of the score grid of a frame and a template (lines 579-580)
grid_size(input_size, template_size) ==
    <<input_size[1] - template_size[1] + 1, input_size[2] - template_size[2] + 1>>

\* the grid's values were computed by a kernel run on this frame and template
ComputedFrom(grid, input, template) ==
    /\ grid.data.values.kind = "kernel"
    /\ grid.data.values.input = Some(input.data)
    /\ grid.data.values.template = Some(template.data)

\* C1: a match_template call made while an earlier result is uncollected
\* discards that result: the device never holds more than one submitted
\* computation, and a wait_for_result returns a grid exactly when the most
\* recent match_template call dispatched and has not been waited for; that
\* grid has the size of that call's frame and template and, when the
\* readback succeeds and the grid is not empty, was computed from them.  As
\* the wait clears what is pending, the wait after it returns None.
C1_DiscardsUncollected ==
    [][/\ Len(matcher'.queue) <= 1
       /\ call'.op = "wait_for_result" =>
            IF is_none(hist.pending)
            THEN call'.ret = None
            ELSE LET p == unwrap(hist.pending)
                 IN  /\ is_some(call'.ret)
                     /\ size_of(unwrap(call'.ret))
                            = grid_size(size_of(p.input), size_of(p.template))
                     /\ (call'.map_ok /\ unwrap(call'.ret).data.len > 0)
                            => ComputedFrom(unwrap(call'.ret), p.input, p.template)]_vars

\* a wait_for_result, straight after a match_template call that discarded an
\* uncollected result, has read a grid of two scores back
C1_Witness ==
    /\ call.op = "wait_for_result"
    /\ call.discarded
    /\ is_some(call.ret)
    /\ call.map_ok
    /\ unwrap(call.ret).data.len = 2

\* C2: wait_for_result returns None exactly when no computation was submitted
\* since construction or since the last wait_for_result; otherwise it returns
\* a grid; either way nothing is pending afterwards, so that a second
\* wait_for_result in a row returns None.
C2_NoneIffNothingDispatched ==
    [][call'.op = "wait_for_result" =>
        /\ (call'.ret = None) <=> (matcher.queue = <<>>)
        /\ ~matcher'.matching_ongoing
        /\ matcher'.queue = <<>>
        /\ call.op \in {"new", "wait_for_result"} => call'.ret = None]_vars

\* a wait_for_result returned a grid and left nothing pending
C2_Witness ==
    /\ call.op = "wait_for_result"
    /\ is_some(call.ret)
    /\ ~matcher.matching_ongoing

\* how many times a buffer was created, by the log of a call
Count(log, name) == Cardinality({i \in 1 .. Len(log) : log[i] = name})

\* C3: a match_template call with the frame and template sizes of the call
\* before it creates no buffer; one that dispatches with the template size
\* changed creates the template, result and staging buffers once each, and
\* the input buffer only if the frame size changed too, and then once.
C3_NoReallocationForSameSizes ==
    [][(/\ call'.op = "match_template"
        /\ call'.panic # "not implemented yet"
        /\ is_some(hist.sizes)) =>
            LET prev == unwrap(hist.sizes)
                cur == unwrap(hist'.sizes)
            IN  /\ cur = prev => call'.created = <<>>
                /\ (cur[2] # prev[2] /\ call'.dispatched) =>
                      /\ Count(call'.created, "template_buffer") = 1
                      /\ Count(call'.created, "result_buffer") = 1
                      /\ Count(call'.created, "staging_buffer") = 1
                      /\ Count(call'.created, "input_buffer")
                            = IF cur[1] # prev[1] THEN 1 ELSE 0]_vars

\* a call dispatched without creating a buffer: it overwrote both the input
\* and the template buffer in place
C3_Witness ==
    /\ call.op = "match_template"
    /\ call.dispatched
    /\ call.created = <<>>
    /\ call.written = {"input_buffer", "template_buffer"}

C5_GridDimensions ==
    (call.op = "wait_for_result" /\ is_some(call.ret)) =>
        /\ is_some(hist.sizes)
        /\ size_of(unwrap(call.ret))
              = grid_size(unwrap(hist.sizes)[1], unwrap(hist.sizes)[2])
        /\ unwrap(call.ret).data.len = unwrap(call.ret).width * unwrap(call.ret).height

\* a grid of one column and two rows was returned for the second of two
\* dispatched calls
C5_Witness ==
    /\ call.op = "wait_for_result"
    /\ is_some(call.ret)
    /\ call.discarded
    /\ size_of(unwrap(call.ret)) = <<1, 2>>
    /\ unwrap(call.ret).data.len = 2

\* C6 as stated: a match_template call whose template is wider or taller
\* than the frame fails, dispatches nothing and leaves no grid to return.
C6_OversizeTemplateFails ==
    (call.op = "match_template" /\ call.oversize) =>
        /\ call.panic # ""
        /\ ~call.dispatched
        /\ ~matcher.matching_ongoing

\* C8 as stated: a match_template call with a method that has no kernel
\* (CCOEFF, CCOEFF_NORMED) fails, whatever the calls made before on the same
\* matcher, and dispatches nothing.
C8_UnsupportedMethodFails ==
    (call.op = "match_template" /\ call.method \notin RawMethods) =>
        /\ call.panic = "not implemented yet"
        /\ ~call.dispatched

---------------------------------------------------------------------------
(* The claims about the free functions.                                     *)

fits(input, template) ==
    template.width <= input.width /\ template.height <= input.height

\* C7 as stated: for a raw method and a template that fits the frame, the
\* free function match_template returns what a fresh TemplateMatcher returns:
\* match_template with that method, then wait_for_result.
C7_FreeFunctionIsFreshMatcher ==
    (/\ applied.op = "match_template"
     /\ applied.method \in RawMethods
     /\ fits(applied.input, applied.template)) =>
        /\ applied.result.panic = ""
        /\ applied.result = fresh_matcher_result(applied.input, applied.template,
                                applied.method, overflow_checks, applied.map_ok[1])

\* the sum of the squares of the mean-subtracted template
energy(template) ==
    LET mean_t == image_mean(template)
    IN  FSum([k \in 1 .. Len(template.data) |->
                FMul(FSub(template.data[k], mean_t), FSub(template.data[k], mean_t))])

\* C9 as stated: each cell of the CCOEFF_NORMED grid is the cell of the
\* CCOEFF grid divided by the template's energy, the sum of the squares of
\* the mean-subtracted template (where the readbacks succeed and that energy
\* is not zero).
C9_NormedIsCcoeffByEnergy ==
    (/\ applied.op = "match_template"
     /\ applied.method = "CCOEFF_NORMED"
     /\ applied.map_ok = <<TRUE, TRUE, TRUE>>
     /\ applied.result.panic = ""
     /\ energy(applied.template) # F(0)) =>
        LET normed == unwrap(applied.result.ret)
            plain == unwrap(ccoeff(applied.input, applied.template, FALSE,
                                   overflow_checks, applied.map_ok).ret)
        IN  /\ size_of(normed) = size_of(plain)
            /\ Len(normed.data) = Len(plain.data)
            /\ \A k \in 1 .. Len(normed.data) :
                  FMul(normed.data[k], energy(applied.template)) = plain.data[k]

\* the textbook mean-subtracted cross-correlation at offset (x, y)
textbook_cell(input, template, x, y) ==
    LET n == template.width * template.height
        patch == [k \in 1 .. n |->
                    input.data[(y + (k - 1) \div template.width) * input.width
                               + x + ((k - 1) % template.width) + 1]]
        mean_patch == FMul(FSum(patch), FRecip(F(n)))
        mean_t == FMul(FSum(template.data), FRecip(F(n)))
    IN  FSum([k \in 1 .. n |->
                FMul(FSub(patch[k], mean_patch), FSub(template.data[k], mean_t))])

\* C10: where the template fits the frame and the readbacks succeed, the
\* CCOEFF grid has (input width - template width + 1) columns and
\* (input height - template height + 1) rows, and its cell (x, y) is the
\* textbook mean-subtracted cross-correlation at (x, y), in exact arithmetic.
C10_CcoeffIsTextbook ==
    (/\ applied.op = "match_template"
     /\ applied.method = "CCOEFF"
     /\ fits(applied.input, applied.template)
     /\ applied.map_ok = <<TRUE, TRUE, TRUE>>) =>
        /\ applied.result.panic = ""
        /\ LET grid == unwrap(applied.result.ret)
           IN  /\ size_of(grid) = grid_size(size_of(applied.input), size_of(applied.template))
               /\ Len(grid.data) = grid.width * grid.height
               /\ \A k \in 1 .. Len(grid.data) :
                     grid.data[k] = textbook_cell(applied.input, applied.template,
                                        (k - 1) % grid.width, (k - 1) \div grid.width)

\* CCOEFF was applied to a frame of two rows and two columns and a template
\* of two pixels that differ, and the grid has a cell that is not zero
C10_Witness ==
    /\ applied.op = "match_template"
    /\ applied.method = "CCOEFF"
    /\ applied.map_ok = <<TRUE, TRUE, TRUE>>
    /\ size_of(applied.input) = <<2, 2>>
    /\ Len(applied.template.data) = 2
    /\ applied.template.data[1] # applied.template.data[2]
    /\ applied.result.panic = ""
    /\ \E k \in 1 .. Len(unwrap(applied.result.ret).data) :
          unwrap(applied.result.ret).data[k] # F(0)

---------------------------------------------------------------------------
(* The claims about the Image algebra and the Image invariant.              *)

\* C11 as stated: add, sub and mul of two images whose dimensions differ
\* fail, and yield no image.
C11_MismatchFails ==
    (/\ applied.op \in {"add", "sub", "mul"}
     /\ size_of(applied.self) # size_of(applied.other)) =>
        /\ applied.result.panic # ""
        /\ is_none(applied.result.ret)

\* data.len() == width * height
well_formed(image) == Len(image.data) = image.width * image.height

\* C12 as stated, for ccoeff: where ccoeff returns (the readbacks
\* succeeding), its intermediate ic and the image it returns have
\* data.len() == width * height.
C12_ImagesWellFormed ==
    (/\ applied.op = "match_template"
     /\ applied.method \in {"CCOEFF", "CCOEFF_NORMED"}
     /\ applied.map_ok = <<TRUE, TRUE, TRUE>>
     /\ applied.result.panic = "") =>
        /\ well_formed(unwrap(applied.result.ret))
        /\ well_formed(ccoeff_ic(applied.input, applied.template,
                                 overflow_checks, applied.map_ok))

---------------------------------------------------------------------------
(* The claims about the scans.                                              *)

\* the location of the cell of index k (from 1) in a grid `width` wide
location_of(k, width) == <<(k - 1) % width, (k - 1) \div width>>

\* the first cell in raster order holding `value`
first_cell(input, value) ==
    CHOOSE k \in 1 .. Len(input.data) :
        /\ input.data[k] = value
        /\ \A j \in 1 .. k - 1 : input.data[j] # value

\* C15: both find_extremes return the minimum and the maximum of the grid
\* and, for each, the location of the first cell in raster order holding it.
C15_ExtremesAndFirstLocations ==
    (applied.op \in {"find_extremes", "find_extremes_arr2"}) =>
        LET e == applied.result
            data == applied.input.data
        IN  /\ \E k \in 1 .. Len(data) : data[k] = e.min_value
            /\ \A k \in 1 .. Len(data) : ~FLt(data[k], e.min_value)
            /\ e.min_value_location
                  = location_of(first_cell(applied.input, e.min_value), applied.input.width)
            /\ \E k \in 1 .. Len(data) : data[k] = e.max_value
            /\ \A k \in 1 .. Len(data) : ~FLt(e.max_value, data[k])
            /\ e.max_value_location
                  = location_of(first_cell(applied.input, e.max_value), applied.input.width)

\* find_extremes was applied to a grid of two rows whose minimum is held by
\* two cells, the first of them in the second row, and whose maximum is held
\* by two cells of the first row
C15_Witness ==
    /\ applied.op = "find_extremes"
    /\ applied.input.height = 2
    /\ applied.result.min_value_location[2] = 1
    /\ Cardinality({k \in 1 .. Len(applied.input.data) :
                       applied.input.data[k] = applied.result.min_value}) = 2
    /\ Cardinality({k \in 1 .. applied.input.width :
                       applied.input.data[k] = applied.result.max_value}) = 2

\* the cells find_matches accepts
accepted(input, threshold) ==
    {k \in 1 .. Len(input.data) : FLt(input.data[k], threshold)}

\* the cells j and k lie within the template footprint of each other
within_footprint(j, k, width, template_width, template_height) ==
    /\ Abs(location_of(j, width)[1] - location_of(k, width)[1]) < template_width
    /\ Abs(location_of(j, width)[2] - location_of(k, width)[2]) < template_height

\* C16 as stated: where exactly two cells are accepted and they lie within
\* one footprint, find_matches returns one match, and it carries the lower
\* of the two values.
C16_MergeKeepsLower ==
    (/\ applied.op = "find_matches"
     /\ \E j, k \in accepted(applied.input, applied.args.threshold) :
           /\ j < k
           /\ accepted(applied.input, applied.args.threshold) = {j, k}
           /\ within_footprint(j, k, applied.input.width,
                               applied.args.template_width, applied.args.template_height)) =>
        /\ Len(applied.result) = 1
        /\ \A k \in accepted(applied.input, applied.args.threshold) :
              ~FLt(applied.input.data[k], applied.result[1].value)

\* C17 as stated: no two matches find_matches returns lie within the
\* template footprint of each other.
C17_MatchesApart ==
    (applied.op = "find_matches") =>
        \A i, j \in 1 .. Len(applied.result) :
            i < j =>
                \/ Abs(applied.result[i].location[1] - applied.result[j].location[1])
                      >= applied.args.template_width
                \/ Abs(applied.result[i].location[2] - applied.result[j].location[2])
                      >= applied.args.template_height

\* C18: every match find_matches returns has a value below the threshold,
\* the value of the grid cell at its location; a grid with no cell below the
\* threshold yields no match.
C18_MatchesBelowThreshold ==
    (applied.op = "find_matches") =>
        /\ \A i \in 1 .. Len(applied.result) :
              LET m == applied.result[i]
              IN  /\ FLt(m.value, applied.args.threshold)
                  /\ m.location[1] \in 0 .. applied.input.width - 1
                  /\ m.location[2] \in 0 .. applied.input.height - 1
                  /\ m.value = applied.input.data[m.location[2] * applied.input.width
                                                  + m.location[1] + 1]
        /\ accepted(applied.input, applied.args.threshold) = {}
              => applied.result = <<>>

\* find_matches returned two matches for a grid with four accepted cells,
\* the first match moved from the cell that created it
C18_Witness ==
    /\ applied.op = "find_matches"
    /\ Len(applied.result) = 2
    /\ Cardinality(accepted(applied.input, applied.args.threshold)) = 4
    /\ applied.result[1].location # <<0, 0>>
    /\ FLt(applied.input.data[1], applied.args.threshold)

---------------------------------------------------------------------------
(* The claims about the summed-area table.                                  *)

\* C13: the entry [y, x] of the table integral_arr2 returns is the sum of the
\* cells [y', x'] with y' <= y and x' <= x; for an array of ones it is
\* (x + 1) * (y + 1).
C13_IntegralIsPrefixSum ==
    (applied.op = "integral_arr2") =>
        LET mat == applied.input
            res == unwrap(applied.result.ret)
        IN  /\ res.dim = mat.dim
            /\ Len(res.data) = Len(mat.data)
            /\ \A y \in 0 .. mat.dim[1] - 1, x \in 0 .. mat.dim[2] - 1 :
                  /\ arr_at(res, y, x) = rect_sum(mat, 0, 0, x + 1, y + 1)
                  /\ (\A k \in 1 .. Len(mat.data) : mat.data[k] = F(1))
                        => arr_at(res, y, x) = F((x + 1) * (y + 1))

\* the table of the two by two array of ones was built
C13_Witness ==
    /\ applied.op = "integral_arr2"
    /\ applied.input = Array2(<<F(1), F(1), F(1), F(1)>>, 2, 2)
    /\ unwrap(applied.result.ret).data = <<F(1), F(2), F(2), F(4)>>

\* the rectangle lies inside the array
in_bounds(mat, args) ==
    /\ args.x + args.width <= mat.dim[2]
    /\ args.y + args.height <= mat.dim[1]

\* C14 as stated: for every rectangle inside the array, those starting at
\* x = 0 or y = 0 included, both subsum_from_integral_arrf32 and
\* subsum_from_integral_arrf64 return the sum of the cells of the rectangle.
C14_SubsumIsRectangleSum ==
    (/\ applied.op \in {"subsum_from_integral_arrf32", "subsum_from_integral_arrf64"}
     /\ in_bounds(applied.input, applied.args)) =>
        /\ applied.result.panic = ""
        /\ applied.result.ret
              = Some(rect_sum(applied.input, applied.args.x, applied.args.y,
                              applied.args.width, applied.args.height))

---------------------------------------------------------------------------
(* The claims about BestMatcher and about a failed readback.                *)

\* C19 as stated: where the squared-error grid of the image and the template
\* exists, result() returns None when the minimum of the grid is at or above
\* the threshold (SSE_THRESHOLD when none is given), and otherwise the Rect
\* at the location of the minimum with the template's width and height.
C19_BestMatcherResult ==
    LET sse == fresh_matcher_result(applied.input, applied.template,
                                    "SumOfSquaredErrors", overflow_checks, TRUE)
    IN  (/\ applied.op = "BestMatcher_result"
         /\ applied.map_ok = <<TRUE, TRUE, TRUE>>
         /\ sse.panic = "") =>
            LET e == find_extremes(unwrap(sse.ret))
                threshold == IF is_some(applied.threshold)
                             THEN unwrap(applied.threshold) ELSE SSE_THRESHOLD
            IN  /\ applied.result.panic = ""
                /\ unwrap(applied.result.ret)
                      = IF ~FLt(e.min_value, threshold)
                        THEN None
                        ELSE Some(Rect(e.min_value_location[1], e.min_value_location[2],
                                       applied.template.width, applied.template.height))

\* C20 as stated: a wait_for_result whose readback fails returns no score
\* grid, so it never hands out values the kernel did not compute.
C20_NoGridOnReadbackFailure ==
    (call.op = "wait_for_result" /\ ~call.map_ok) => is_none(call.ret)

---------------------------------------------------------------------------
(* The claims about what a reused matcher caches.                           *)

\* C23 as stated: a match_template call compiles a pipeline only when none
\* is cached or the method differs from the previous call's, a call with the
\* method of the call before it and a pipeline cached compiles none, and the
\* pipeline a call dispatches is the one of the method it was asked for.
C23_PipelineOfRequestedMethod ==
    [][call'.op = "match_template" =>
        /\ call'.compiled
              => (is_none(matcher.last_pipeline) \/ matcher.last_method # Some(call'.method))
        /\ (is_some(matcher.last_pipeline) /\ matcher.last_method = Some(call'.method))
              => ~call'.compiled
        /\ call'.dispatched
              => matcher'.last_pipeline = entry_point(call'.method)]_vars

\* the uniforms of a frame and a template
uniforms_of(input, template) ==
    [input_width |-> input.width, input_height |-> input.height,
     template_width |-> template.width, template_height |-> template.height]

\* C24 as stated: after a match_template call that dispatched, the uniform
\* buffer holds the dimensions of that call's frame and template.
C24_UniformsOfThisCall ==
    (call.op = "match_template" /\ call.dispatched) =>
        matcher.uniform_buffer
            = uniforms_of(unwrap(hist.pending).input, unwrap(hist.pending).template)

\* C25 as stated: the bind group a call dispatches with refers to the
\* matcher's current input, template and result buffers.
C25_BindGroupIsCurrent ==
    (call.op = "match_template" /\ call.dispatched) =>
        /\ is_some(matcher.bind_group)
        /\ unwrap(matcher.bind_group) = BindGroup(TRUE, TRUE, TRUE)

\* C26 as stated: whenever the matcher has a result buffer, after a call
\* that failed too, last_result_size is the grid size of last_input_size
\* and last_template_size.
C26_ResultSizeOfCachedSizes ==
    is_some(matcher.result_buffer) =>
        matcher.last_result_size
            = grid_size(matcher.last_input_size, matcher.last_template_size)

---------------------------------------------------------------------------
(* The claim about the classifier.                                          *)

\* the indices of the candidates whose best similarity reaches EarlyExit
reaching(candidates) ==
    {i \in 0 .. Len(candidates) - 1 :
        is_some(candidates[i + 1]) /\ ~FLt(unwrap(candidates[i + 1]), EarlyExit)}

\* the first of them
first_reaching(candidates) ==
    CHOOSE i \in reaching(candidates) : \A j \in reaching(candidates) : i <= j

\* C21: the classifier matches the candidates in order and stops at the
\* first whose best similarity reaches 0.99: no candidate after it is
\* matched, and the index returned is that candidate's; the index returned
\* is always within the candidate list.
C21_StopsAtFirstNearPerfect ==
    (applied.op = "match_with" /\ applied.input # <<>>) =>
        LET candidates == applied.input
            matched == applied.result.matched
            ret == unwrap(applied.result.ret)
        IN  /\ applied.result.panic = ""
            /\ ret \in 0 .. Len(candidates) - 1
            /\ \A k \in 1 .. Len(matched) - 1 : matched[k] < matched[k + 1]
            /\ \A i \in reaching(candidates) :
                  /\ \A k \in 1 .. Len(matched) : matched[k] <= first_reaching(candidates)
                  /\ ret = first_reaching(candidates)
            /\ reaching(candidates) = {} =>
                  {matched[k] : k \in 1 .. Len(matched)}
                      = {i \in 0 .. Len(candidates) - 1 : is_some(candidates[i + 1])}

\* the classifier stopped at the second of three candidates, after matching
\* the first, and the third would have scored higher
C21_Witness ==
    /\ applied.op = "match_with"
    /\ Len(applied.input) = 3
    /\ applied.input[3] = Some(F(1))
    /\ applied.result.matched = <<0, 1>>
    /\ applied.result.ret = Some(1)

---------------------------------------------------------------------------
(* The claim about the normalized correlation on the CPU.                   *)

\* C22: match_template of template_matching.rs, given a frame that is not
\* constant as the image and as the kernel, returns a grid of one cell, and
\* its score is 1.
C22_SelfMatchIsOne ==
    (/\ applied.op = "match_template_arr2"
     /\ applied.args.kernel = applied.input
     /\ \E k \in 1 .. Len(applied.input.data) : applied.input.data[k] # applied.input.data[1]) =>
        /\ applied.result.panic = ""
        /\ unwrap(applied.result.ret) = Array2(<<F(1)>>, 1, 1)

\* a frame of two rows and two columns, three of its cells alike, was
\* matched against itself
C22_Witness ==
    /\ applied.op = "match_template_arr2"
    /\ applied.args.kernel = applied.input
    /\ applied.input.dim = <<2, 2>>
    /\ Cardinality({k \in 1 .. 4 : applied.input.data[k] = F(1)}) = 3
    /\ unwrap(applied.result.ret).dim = <<1, 1>>

---------------------------------------------------------------------------
(* The claims about the screen cache.                                       *)

\* the captures that succeeded, by their place in the log
succeeded(self) == {k \in 1 .. Len(self.captures) : self.captures[k].ok}

\* the cache holds the image of the most recent capture that succeeded, and
\* nothing before one has
cache_is_latest(self) ==
    self.screen_cache
        = IF succeeded(self) = {} THEN None
          ELSE Some(self.captures[Max(succeeded(self))].image)

\* C27: the cache always holds the image of the most recent successful
\* capture.  screen_cache_or_cap captures only when the cache is empty and
\* otherwise returns the cached image; screen_cap_and_cache always captures
\* and returns what it captured; a capture that fails leaves the cache as it
\* was and a capture that succeeds replaces it.
C27_CacheIsLatestCapture ==
    [][/\ cache_is_latest(aah')
       /\ (\A t \in Threads :
              aah.threads[t].pc = "screencap" => aah'.threads[t].pc = "screencap")
             => (aah'.captures = aah.captures /\ aah'.screen_cache = aah.screen_cache)
       /\ \A t \in Threads :
            LET before == aah.threads[t]
                after == aah'.threads[t]
            IN  /\ (before.pc = "screencap" /\ after.pc # "screencap") =>
                      /\ before.op = "screen_cache_or_cap" => is_none(aah.screen_cache)
                      /\ Len(aah'.captures) = Len(aah.captures) + 1
                      /\ IF aah'.captures[Len(aah'.captures)].ok
                         THEN aah'.screen_cache
                                 = Some(aah'.captures[Len(aah'.captures)].image)
                         ELSE aah'.screen_cache = aah.screen_cache /\ after.pc = "done"
                /\ (before.pc = "return" /\ after.pc = "done") =>
                      /\ after.ret = Some(Ok(unwrap(aah.screen_cache)))
                      /\ before.op = "screen_cap_and_cache"
                            => after.ret = Some(Ok(unwrap(before.captured)))
                      /\ (before.op = "screen_cache_or_cap" /\ ~before.saw_empty)
                            => is_none(before.captured)]_vars

\* after a capture that succeeded and one that failed after it, a
\* screen_cache_or_cap returned the image of the first without capturing
C27_Witness ==
    /\ Len(aah.captures) = 2
    /\ aah.captures[1].ok
    /\ ~aah.captures[2].ok
    /\ aah.screen_cache = Some(1)
    /\ \E t \in Threads :
          /\ aah.threads[t].pc = "done"
          /\ aah.threads[t].op = "screen_cache_or_cap"
          /\ aah.threads[t].ret = Some(Ok(1))
          /\ is_none(aah.threads[t].captured)

\* every thread has made one call, of screen_cache_or_cap, begun while the
\* cache was empty, and has returned from it
all_called_on_empty(self) ==
    \A t \in Threads :
        /\ self.threads[t].pc = "done"
        /\ self.threads[t].first
        /\ self.threads[t].op = "screen_cache_or_cap"
        /\ self.threads[t].saw_empty

\* C28 as stated: when every thread calls screen_cache_or_cap on an empty
\* cache, one capture is performed and every caller returns its image.
C28_OneCaptureForAll ==
    all_called_on_empty(aah) =>
        /\ Len(aah.captures) = 1
        /\ \A t \in Threads : aah.threads[t].ret = Some(Ok(aah.captures[1].image))

\* C28, amended: the threads capture one at a time, holding the mutex.  When
\* every thread calls screen_cache_or_cap on an empty cache, at most one
\* capture succeeds; every caller that returns an image returns the image of
\* that capture, and a caller returns an error only if its own capture
\* failed, before any succeeded.
C28_OneSuccessfulCapture ==
    /\ \A t \in Threads :
          aah.threads[t].pc \in {"screencap", "return"} => aah.lock = Some(t)
    /\ all_called_on_empty(aah) =>
          /\ Cardinality(succeeded(aah)) <= 1
          /\ \A t \in Threads :
                LET ret == unwrap(aah.threads[t].ret)
                IN  IF is_some(ret.ok)
                    THEN /\ succeeded(aah) # {}
                         /\ unwrap(ret.ok) = aah.captures[Max(succeeded(aah))].image
                    ELSE \E k \in 1 .. Len(aah.captures) :
                            /\ aah.captures[k].thread = t
                            /\ ~aah.captures[k].ok
                            /\ \A j \in succeeded(aah) : k < j

\* two threads called screen_cache_or_cap on an empty cache; the capture of
\* the first failed, the second captured, and a third capture was never made
C28_Witness ==
    /\ all_called_on_empty(aah)
    /\ Len(aah.captures) = 2
    /\ ~aah.captures[1].ok
    /\ aah.captures[2].ok
    /\ \E t \in Threads : aah.threads[t].ret = Some(Ok(2))
    /\ \E t \in Threads : aah.threads[t].ret = Some(Err("screencap"))

---------------------------------------------------------------------------
(* The claims about MultiMatchAnalyzer and Controller.                      *)

\* C29: the rects analyze returns are the rects of the matcher, in their
\* order, each moved by the top-left pixel of the region of interest, its
\* width and height unchanged.
C29_RectsTranslatedByRoi ==
    (applied.op = "analyze" /\ is_some(applied.result.ok)) =>
        LET rects == unwrap(applied.result.ok)
            matched == applied.input.matched
            tl == roi_pixels(applied.input.roi, applied.input.screen_size).tl
        IN  /\ Len(rects) = Len(matched)
            /\ \A k \in 1 .. Len(rects) :
                  /\ rects[k].x = matched[k].x + tl[1]
                  /\ rects[k].y = matched[k].y + tl[2]
                  /\ rects[k].width = matched[k].width
                  /\ rects[k].height = matched[k].height

\* analyze returned two different rects of the lower right quarter of a
\* screen four pixels wide and two high
C29_Witness ==
    /\ applied.op = "analyze"
    /\ is_some(applied.result.ok)
    /\ roi_pixels(applied.input.roi, applied.input.screen_size).tl = <<2, 1>>
    /\ Len(unwrap(applied.result.ok)) = 2
    /\ applied.input.matched = <<Rect(0, 0, 1, 1), Rect(1, 0, 1, 1)>>
    /\ unwrap(applied.result.ok)[1] = Rect(2, 1, 1, 1)
    /\ unwrap(applied.result.ok)[2] = Rect(3, 1, 1, 1)

\* C30 as stated: after a connect that succeeds the controller's width and
\* height are the width and the height of the screen captured.
C30_ControllerHasScreenSize ==
    (applied.op = "connect" /\ is_some(applied.result.ok)) =>
        /\ unwrap(applied.result.ok).width = applied.input[1]
        /\ unwrap(applied.result.ok).height = applied.input[2]

====
